---- MODULE Spec2Model ----
(***************************************************************************)
(* Model of the dictionary service of dns.toys: the word cache, the fetch  *)
(* queue worker (runFetchQueue), the remote lookup (fetchAPI), the query   *)
(* path (Query/get) and the snapshots of the cache (Dump/Load).            *)
(*                                                                         *)
(* Time is counted in minutes.  The callers and the worker are separate    *)
(* goroutines; each action below is one step of one goroutine between two  *)
(* accesses to shared state (the map, the mutex, the channel, the clock).  *)
(***************************************************************************)
EXTENDS Integers, Sequences, FiniteSets, TLC

\* ------------------------------------------------------------------ bounds
\* Number of times the clock may advance in a behaviour.
MaxTicks == 1
\* Number of Query calls made in a behaviour.
MaxCalls == 3
\* Number of Query calls made in a behaviour checked for liveness.
MaxLiveCalls == 2
\* Saturation of the counter of consecutive limiter denials.
DenyCap == 2
\* Number of Query calls made in a behaviour that starts from a store in service.
MaxWarmCalls == 2

\* ------------------------------------------------------- program constants
apiRateLimit == 10
apiRateLimitBurstSize == 1
\* time.Minute, the unit of the model's clock.
Minute == 1
StatusInternalServerError == 500
StatusTooManyRequests == 429

\* What the limiter's bucket gains in one minute (apiRateLimit per second).
TokensPerMinute == apiRateLimit * 60
TenMinutes == 10 * Minute
\* AddDate(0, 1, 0) and AddDate(1, 0, 0), for a 30 day month and a 365 day year.
Month == 30 * 24 * 60 * Minute
Year == 365 * 24 * 60 * Minute

\* ------------------------------------------------------------ the universe
Callers == {"c1", "c2"}
Dispatcher == "dispatcher"
None == "none"

\* Raw query strings and the keys they lower-case to.
RawWords == {"Cat", "cat", "dog"}
Words == {"cat", "dog"}

\* The amounts by which the clock is observed to advance.
TickSteps == {Minute, 2 * Year}

\* strings.ToLower on the raw words.
ToLower(q) == IF q = "Cat" THEN "cat" ELSE q

\* strings.Trim(s, " ") on the definitions the upstream supplies.
Trim(s) == IF s = " a small feline " THEN "a small feline" ELSE s

\* ---------------------------------------------------------------- entries
Meaning(p, d) == [PartOfSpeech |-> p, Definition |-> d]

\* The zero value of entry: what a map miss yields.
ZeroEntry ==
    [Word |-> "", Meanings |-> <<>>, Valid |-> FALSE, Found |-> FALSE, ExpiresAt |-> 0]

\* ------------------------------------------------------ upstream responses
Def(s) == [Definition |-> s]
Pos(p, ds) == [PartOfSpeech |-> p, Definitions |-> ds]
Group(ms) == [Meanings |-> ms]

\* A body is invalid JSON, the JSON null, a JSON object (whose "title" is a
\* string, or is of another type) or a JSON array (of word-sense groups, or of
\* elements that do not fit wordData).
Body(kind, title, typed, groups) ==
    [kind |-> kind, title |-> title, typed |-> typed, groups |-> groups]

BodyGarbage == Body("invalid", "", FALSE, <<>>)
BodyNull == Body("null", "", FALSE, <<>>)
BodyNotFound == Body("object", "string", FALSE, <<>>)
BodyBadTitle == Body("object", "number", FALSE, <<>>)
BodyIllTyped == Body("array", "", FALSE, <<>>)
BodyEmpty == Body("array", "", TRUE, <<>>)
BodyCat ==
    Body("array", "", TRUE,
         << Group(<< Pos("noun", << Def(" a small feline "), Def("a jazz fan") >>),
                     Pos("adjective", << >>),
                     Pos("verb", << Def("to hoist an anchor") >>) >>),
            Group(<< Pos("adverb", << Def("second group") >>) >>) >>)
BodyDup ==
    Body("array", "", TRUE,
         << Group(<< Pos("noun", << Def("a jazz fan") >>),
                     Pos("noun", << Def("a catfish") >>) >>) >>)

\* A first group none of whose part-of-speech entries has a definition.
BodyNoDefs ==
    Body("array", "", TRUE,
         << Group(<< Pos("noun", << >>), Pos("verb", << >>) >>),
            Group(<< Pos("adverb", << Def("second group") >>) >>) >>)

Bodies ==
    {BodyGarbage, BodyNull, BodyNotFound, BodyBadTitle, BodyIllTyped, BodyEmpty,
     BodyCat, BodyDup, BodyNoDefs}

Statuses == {200, 404, StatusTooManyRequests, StatusInternalServerError, 503}

\* What client.Do and ReadAll hand to fetchAPI: a transport error, or a status
\* and a body.
Responses ==
    {[transport |-> TRUE, status |-> 0, body |-> BodyGarbage]}
    \cup {[transport |-> FALSE, status |-> s, body |-> b] : s \in Statuses, b \in Bodies}

\* The responses the upstream gives while the whole service runs: one of each
\* kind of outcome, and the error statuses with a well-formed body.
Upstream ==
    {[transport |-> TRUE, status |-> 0, body |-> BodyGarbage],
     [transport |-> FALSE, status |-> 200, body |-> BodyGarbage],
     [transport |-> FALSE, status |-> 200, body |-> BodyBadTitle],
     [transport |-> FALSE, status |-> 200, body |-> BodyIllTyped],
     [transport |-> FALSE, status |-> 404, body |-> BodyNotFound],
     [transport |-> FALSE, status |-> StatusInternalServerError, body |-> BodyNotFound],
     [transport |-> FALSE, status |-> StatusTooManyRequests, body |-> BodyCat],
     [transport |-> FALSE, status |-> 200, body |-> BodyCat]}

\* The responses to a lookup made while the store is in service: the found
\* ones with and without meanings, not found, and a transport error.
WarmUpstream ==
    {[transport |-> TRUE, status |-> 0, body |-> BodyGarbage],
     [transport |-> FALSE, status |-> 404, body |-> BodyNotFound],
     [transport |-> FALSE, status |-> 200, body |-> BodyCat],
     [transport |-> FALSE, status |-> 200, body |-> BodyEmpty],
     [transport |-> FALSE, status |-> 200, body |-> BodyNoDefs]}

NoResponse == [transport |-> FALSE, status |-> 0, body |-> BodyGarbage]

\* json.Unmarshal(body, &notFound) returns nil: null leaves the struct alone,
\* an object fits unless its title is not a string.
UnmarshalNotFoundOk(body) ==
    \/ body.kind = "null"
    \/ body.kind = "object" /\ body.title # "number"

\* json.Unmarshal(body, &apiData) returns nil.
UnmarshalWordDataOk(body) ==
    \/ body.kind = "null"
    \/ body.kind = "array" /\ body.typed

\* The decoded apiData.
apiDataOf(body) == IF body.kind = "array" /\ body.typed THEN body.groups ELSE <<>>

\* -------------------------------------------------------------- fetchAPI
\* A placeholder that is cached without a time to live.
badEntryNoTTL(w, t) ==
    [Word |-> w, Meanings |-> <<>>, Valid |-> FALSE, Found |-> FALSE, ExpiresAt |-> t]

\* The placeholder cached when the request fails, built when fetchAPI starts.
badEntry(w, t) ==
    [Word |-> w, Meanings |-> <<>>, Valid |-> FALSE, Found |-> FALSE,
     ExpiresAt |-> t + TenMinutes]

\* The status check that precedes parsing.
IsErrorStatus(status) ==
    status = StatusInternalServerError \/ status = StatusTooManyRequests

\* A not-found entry whose expiry is left at the zero time.
notFoundEntryNoExpiry(w, t) ==
    [Word |-> w, Meanings |-> <<>>, Valid |-> TRUE, Found |-> FALSE, ExpiresAt |-> 0]

\* The entry of a word the upstream does not know, cached for a month.
notFoundEntry(w, t) ==
    [Word |-> w, Meanings |-> <<>>, Valid |-> TRUE, Found |-> FALSE,
     ExpiresAt |-> t + Month]

\* The loop over first.Meanings: one Meaning for each part-of-speech entry
\* that has a definition, taken from its first definition.
RECURSIVE keepMeanings(_)
keepMeanings(ps) ==
    IF ps = <<>> THEN <<>>
    ELSE LET p == Head(ps)
         IN IF Len(p.Definitions) = 0
            THEN keepMeanings(Tail(ps))
            ELSE << Meaning(p.PartOfSpeech, Trim(p.Definitions[1].Definition)) >>
                 \o keepMeanings(Tail(ps))

\* The entry of a word the upstream knows, cached for a year.
foundEntry(w, t, apiData) ==
    [Word |-> w,
     Meanings |-> IF Len(apiData) > 0 THEN keepMeanings(apiData[1].Meanings) ELSE <<>>,
     Valid |-> TRUE, Found |-> TRUE, ExpiresAt |-> t + Year]

\* fetchAPI(w) for a request begun at time t0 whose response resp is handled
\* at time t: the entry and the error it returns.
fetchAPI(w, t0, resp, t) ==
    IF resp.transport THEN [res |-> badEntry(w, t0), err |-> "error"]
    ELSE IF IsErrorStatus(resp.status) THEN [res |-> badEntry(w, t0), err |-> "error"]
    ELSE IF UnmarshalNotFoundOk(resp.body)
         THEN [res |-> notFoundEntry(w, t), err |-> "errNotFound"]
    ELSE IF ~UnmarshalWordDataOk(resp.body)
         THEN [res |-> badEntry(w, t0), err |-> "error"]
    ELSE [res |-> foundEntry(w, t, apiDataOf(resp.body)), err |-> "nil"]

\* ------------------------------------------------------------ Query / get
\* One TXT record line: fmt.Sprintf of the name, the TTL, the type and the texts.
Line(w, txt) == <<w, "1", "TXT">> \o txt

\* The texts of the three messages.
PendingText == "word definition is being fetched. Try again in a few seconds."
NotFoundText ==
    "word definition was not found in our dictionary, please try other sources."
UnavailableText == "dictionary unavailable, try again later."

PendingLine(w) == Line(w, <<PendingText>>)
NotFoundLine(w) == Line(w, <<NotFoundText>>)
UnavailableLine(w) == Line(w, <<UnavailableText>>)
MeaningLine(w, m) == Line(w, <<m.PartOfSpeech \o ":", m.Definition>>)

\* A loop that puts each line in front of the ones before it.
RECURSIVE meaningLinesReversed(_, _)
meaningLinesReversed(w, ms) ==
    IF ms = <<>> THEN <<>>
    ELSE meaningLinesReversed(w, Tail(ms)) \o <<MeaningLine(w, Head(ms))>>

\* The loop that appends one line per meaning.
RECURSIVE meaningLines(_, _)
meaningLines(w, ms) ==
    IF ms = <<>> THEN <<>>
    ELSE <<MeaningLine(w, Head(ms))>> \o meaningLines(w, Tail(ms))

\* A rendering that answers a found entry without meanings with the not-found
\* line.
RenderNonEmpty(w, data) ==
    IF data.Valid
    THEN IF data.Found /\ data.Meanings # <<>>
         THEN meaningLines(w, data.Meanings)
         ELSE <<NotFoundLine(w)>>
    ELSE <<UnavailableLine(w)>>

\* The lines get builds for a cached entry.
Render(w, data) ==
    IF data.Valid
    THEN IF data.Found THEN meaningLines(w, data.Meanings) ELSE <<NotFoundLine(w)>>
    ELSE <<UnavailableLine(w)>>

\* What get returns once the lookup and the refresh scheduling are done.
getResult(w, data, ok) ==
    IF ~ok THEN [out |-> <<>>, err |-> "errQueued"]
    ELSE [out |-> Render(w, data), err |-> "nil"]

\* A Query that hands errQueued to its caller like any other error.
QueryResultRaw(q, r) ==
    IF r.err # "nil" THEN [out |-> <<>>, err |-> r.err] ELSE [out |-> r.out, err |-> "nil"]

\* What Query makes of get's result.
QueryResult(q, r) ==
    IF r.err # "nil"
    THEN IF r.err = "errQueued"
         THEN [out |-> <<PendingLine(q)>>, err |-> "nil"]
         ELSE [out |-> <<>>, err |-> r.err]
    ELSE [out |-> r.out, err |-> "nil"]

\* data.ExpiresAt.Before(time.Now())
Expired(data, ok, t) == ok /\ data.ExpiresAt < t

\* A grace window of ten minutes.
graceExpiryLong(t) == t + TenMinutes

\* The expiry a stale entry is given when it is served.
graceExpiry(t) == t + Minute

\* ------------------------------------------------------------------ state
VARIABLES
    data,       \* d.data: the map from word to entry (a function on the cached keys)
    now,        \* time.Now(), in minutes
    ticks,      \* how often the clock has advanced
    tokens,     \* d.limiter: the tokens in the bucket
    readers,    \* d.mut: the goroutines holding the read lock
    writer,     \* d.mut: the goroutine holding the write lock, or None
    disp,       \* runFetchQueue: its position and locals
    caller,     \* each Query call: its position and locals
    lastLog,    \* what the latest finished iteration of runFetchQueue logged
    outbound,   \* the remote calls in progress
    calls,      \* the Query calls made so far
    denials,    \* the limiter denials in a row, up to DenyCap
    dropped,    \* the word whose request the limiter dropped, until it is queried again
    dumper,     \* a Dump call: its position and locals
    loader,     \* a Load call: its position and locals
    fault       \* the runtime has stopped the process on a concurrent map access

\* The state of the snapshot calls.
snapVars == <<dumper, loader, fault>>

vars ==
    <<data, now, ticks, tokens, readers, writer, disp, caller, lastLog, outbound, calls,
      denials, dropped, dumper, loader, fault>>

Min(a, b) == IF a < b THEN a ELSE b

\* An assignment that leaves the map with the one key assigned.
PutAlone(m, w, e) == [k \in {w} |-> e]

\* d.data[w] = e
Put(m, w, e) == [k \in (DOMAIN m) \cup {w} |-> IF k = w THEN e ELSE m[k]]

\* data, ok := d.data[w]
Lookup(m, w) ==
    IF w \in DOMAIN m THEN [data |-> m[w], ok |-> TRUE]
    ELSE [data |-> ZeroEntry, ok |-> FALSE]

\* runFetchQueue blocked in the receive of its select.
DispIdle ==
    [pc |-> "recv", w |-> "", t0 |-> 0, resp |-> NoResponse, res |-> ZeroEntry,
     err |-> "nil", from |-> None]

\* No Query in progress.
CallerIdle ==
    [pc |-> "idle", w |-> "", data |-> ZeroEntry, ok |-> FALSE, expired |-> FALSE,
     attempts |-> 0, handed |-> FALSE, out |-> <<>>, err |-> "nil",
     refreshDone |-> FALSE, afterDrop |-> FALSE]

\* No Dump in progress and none finished.
DumperIdle == [pc |-> "idle", src |-> << >>, out |-> <<>>, err |-> "nil"]

\* No Load in progress and none finished.
LoaderIdle == [pc |-> "idle", b |-> <<>>, i |-> 1, before |-> << >>, err |-> "nil"]

\* New: an empty map, an unbuffered channel, a full bucket, the worker started.
Init ==
    /\ data = << >>
    /\ now = 1
    /\ ticks = 0
    /\ tokens = apiRateLimitBurstSize
    /\ readers = {}
    /\ writer = None
    /\ disp = DispIdle
    /\ caller = [c \in Callers |-> CallerIdle]
    /\ lastLog = "none"
    /\ outbound = 0
    /\ calls = 0
    /\ denials = 0
    /\ dropped = None
    /\ dumper = DumperIdle
    /\ loader = LoaderIdle
    /\ fault = FALSE

\* ------------------------------------------------------------------ clock
\* Time passes; the bucket refills at apiRateLimit per second up to the burst.
Tick(d) ==
    /\ ticks < MaxTicks
    /\ now' = now + d
    /\ ticks' = ticks + 1
    /\ tokens' = Min(apiRateLimitBurstSize, tokens + d * TokensPerMinute)
    /\ UNCHANGED <<snapVars, dropped, calls, data, readers, writer, disp, caller, lastLog, outbound, denials>>

\* ---------------------------------------------------------------- callers
\* Each lock section of get and of runFetchQueue (lock, one map access, unlock)
\* is taken in one step, when the mutex admits it; between such steps neither
\* of them holds the mutex.
\* The mutex admits a reader: no goroutine holds the write lock.
CanRLock == writer = None

\* The mutex admits a writer: no goroutine holds it in either mode.
CanLock == writer = None /\ readers = {}

\* Query(q) is called, as one of at most max calls: q is lower-cased and get
\* looks the word up in its read section (RLock, the map read, RUnlock).
QueryCall(c, q, max) ==
    /\ caller[c].pc = "idle"
    /\ calls < max
    /\ calls' = calls + 1
    /\ CanRLock
    /\ LET r == Lookup(data, ToLower(q))
       IN caller' = [caller EXCEPT ![c] =
                       [CallerIdle EXCEPT !.pc = "select", !.w = ToLower(q),
                                          !.data = r.data, !.ok = r.ok,
                                          !.afterDrop = (dropped = ToLower(q))]]
    /\ dropped' = IF dropped = ToLower(q) THEN None ELSE dropped
    /\ UNCHANGED <<snapVars, data, now, ticks, tokens, readers, writer, disp, lastLog, outbound,
                   denials>>

Query(c, q) == QueryCall(c, q, MaxCalls)

\* A send without the default case: the caller waits for the worker.
blockingSend(c) ==
    /\ disp.pc = "recv"
    /\ disp' = [disp EXCEPT !.pc = "allow", !.w = caller[c].w, !.from = c]

\* A send into a channel with room for one word: a busy worker's word is
\* replaced by the one sent.
selectSendBuffered(c) ==
    IF disp.pc = "recv"
    THEN disp' = [disp EXCEPT !.pc = "allow", !.w = caller[c].w, !.from = c]
    ELSE disp' = [disp EXCEPT !.w = caller[c].w]

\* select { case d.fetchQueue <- w: default: }: the send goes through when the
\* worker is blocked in its receive, and is dropped otherwise.
selectSend(c) ==
    IF disp.pc = "recv"
    THEN disp' = [disp EXCEPT !.pc = "allow", !.w = caller[c].w, !.from = c]
    ELSE UNCHANGED disp

\* A request for the dropped word that the worker receives supersedes the drop.
afterSend(c) == IF disp.pc = "recv" /\ dropped = caller[c].w THEN None ELSE dropped

\* get returns and Query hands its result on.
Returned(cl, data0) ==
    LET r == QueryResult(cl.w, getResult(cl.w, data0, cl.ok))
    IN [cl EXCEPT !.pc = "done", !.out = r.out, !.err = r.err, !.data = data0]

\* The word is not cached: schedule a fetch and return errQueued.
GetSelectMiss(c) ==
    /\ caller[c].pc = "select"
    /\ ~caller[c].ok
    /\ selectSend(c)
    /\ caller' = [caller EXCEPT ![c] =
                    Returned([caller[c] EXCEPT !.attempts = 1,
                                               !.handed = (disp.pc = "recv")],
                             caller[c].data)]
    /\ dropped' = afterSend(c)
    /\ UNCHANGED <<snapVars, calls, data, now, ticks, tokens, readers, writer, lastLog, outbound, denials>>

\* The word is cached and has expired: schedule a re-fetch, go on to extend it.
GetSelectStale(c) ==
    /\ caller[c].pc = "select"
    /\ Expired(caller[c].data, caller[c].ok, now)
    /\ selectSend(c)
    /\ caller' = [caller EXCEPT ![c].pc = "grace", ![c].expired = TRUE,
                                ![c].attempts = 1, ![c].handed = (disp.pc = "recv")]
    /\ dropped' = afterSend(c)
    /\ UNCHANGED <<snapVars, calls, data, now, ticks, tokens, readers, writer, lastLog, outbound, denials>>

\* A get that schedules a fetch for a cached, unexpired word as well.
GetSelectFreshRefetch(c) ==
    /\ caller[c].pc = "select"
    /\ caller[c].ok
    /\ ~Expired(caller[c].data, caller[c].ok, now)
    /\ selectSend(c)
    /\ caller' = [caller EXCEPT ![c] =
                    Returned([caller[c] EXCEPT !.attempts = 1,
                                               !.handed = (disp.pc = "recv")],
                             caller[c].data)]
    /\ UNCHANGED <<snapVars, dropped, calls, data, now, ticks, tokens, readers, writer,
                   lastLog, outbound, denials>>

\* The word is cached and has not expired: render it.
GetSelectFresh(c) ==
    /\ caller[c].pc = "select"
    /\ caller[c].ok
    /\ ~Expired(caller[c].data, caller[c].ok, now)
    /\ caller' = [caller EXCEPT ![c] = Returned(caller[c], caller[c].data)]
    /\ UNCHANGED <<snapVars, dropped, calls, data, now, ticks, tokens, readers, writer, disp, lastLog, outbound,
                   denials>>

\* data.ExpiresAt = time.Now().Add(time.Minute)
GetGrace(c) ==
    /\ caller[c].pc = "grace"
    /\ caller' = [caller EXCEPT ![c].pc = "write",
                                ![c].data.ExpiresAt = graceExpiry(now)]
    /\ UNCHANGED <<snapVars, dropped, calls, data, now, ticks, tokens, readers, writer, disp, lastLog, outbound,
                   denials>>

\* The write section (Lock, d.data[w] = data, Unlock); then the entry is
\* rendered and returned.
GetWrite(c) ==
    /\ caller[c].pc = "write"
    /\ CanLock
    /\ data' = Put(data, caller[c].w, caller[c].data)
    /\ caller' = [caller EXCEPT ![c] = Returned(caller[c], caller[c].data)]
    /\ UNCHANGED <<snapVars, dropped, calls, now, ticks, tokens, readers, writer, disp, lastLog, outbound,
                   denials>>

\* The caller of Query takes the lines and the call is over.
Done(c) ==
    /\ caller[c].pc = "done"
    /\ caller' = [caller EXCEPT ![c] = CallerIdle]
    /\ disp' = IF disp.from = c THEN [disp EXCEPT !.from = None] ELSE disp
    /\ UNCHANGED <<snapVars, dropped, calls, data, now, ticks, tokens, readers, writer, lastLog, outbound,
                   denials>>

\* ------------------------------------------------------------- the worker
\* A worker that starts the lookup in a goroutine of its own and goes back to
\* its receive.
DispAllowAsync ==
    /\ disp.pc = "allow"
    /\ tokens >= 1
    /\ tokens' = tokens - 1
    /\ disp' = DispIdle
    /\ outbound' = outbound + 1
    /\ denials' = 0
    /\ UNCHANGED <<snapVars, dropped, calls, data, now, ticks, readers, writer, caller, lastLog>>

\* d.limiter.Allow() grants: fetchAPI begins and sends its request.
DispAllow ==
    /\ disp.pc = "allow"
    /\ tokens >= 1
    /\ tokens' = tokens - 1
    /\ disp' = [disp EXCEPT !.pc = "fetch", !.t0 = now]
    /\ outbound' = outbound + 1
    /\ denials' = 0
    /\ UNCHANGED <<snapVars, dropped, calls, data, now, ticks, readers, writer, caller, lastLog>>

\* The word of a request the limiter drops, when the word is absent from the
\* store or the request came from a stale read that is still in progress; a
\* request for a word cached meanwhile is not recorded.
dropOf(d) ==
    IF \/ d.w \notin DOMAIN data
       \/ d.from \in Callers /\ caller[d.from].expired
    THEN d.w
    ELSE None

\* A denial that still caches a placeholder for the word.
DispDenyCaching ==
    /\ disp.pc = "allow"
    /\ tokens < 1
    /\ lastLog' = "rate limit"
    /\ data' = Put(data, disp.w, badEntry(disp.w, now))
    /\ disp' = DispIdle
    /\ denials' = Min(denials + 1, DenyCap)
    /\ dropped' = dropOf(disp)
    /\ UNCHANGED <<snapVars, calls, now, ticks, tokens, readers, writer, caller, outbound>>

\* d.limiter.Allow() denies: log and continue.
DispDeny ==
    /\ disp.pc = "allow"
    /\ tokens < 1
    /\ lastLog' = "rate limit"
    /\ disp' = DispIdle
    /\ denials' = Min(denials + 1, DenyCap)
    /\ dropped' = dropOf(disp)
    /\ UNCHANGED <<snapVars, calls, data, now, ticks, tokens, readers, writer, caller, outbound>>

\* The remote call ends with resp and fetchAPI returns.
DispFetch(resp) ==
    /\ disp.pc = "fetch"
    /\ LET r == fetchAPI(disp.w, disp.t0, resp, now)
       IN disp' = [disp EXCEPT !.pc = "write", !.resp = resp, !.res = r.res, !.err = r.err]
    /\ outbound' = outbound - 1
    /\ UNCHANGED <<snapVars, dropped, calls, data, now, ticks, tokens, readers, writer, caller, lastLog, denials>>

\* A log of every error, errNotFound included.
fetchLogAll(err) == IF err # "nil" THEN "error" ELSE "none"

\* What the iteration logs once the result is cached.
fetchLog(err) == IF err # "nil" /\ err # "errNotFound" THEN "error" ELSE "none"

\* The write section (Lock, d.data[w] = res, Unlock); the error is logged and
\* the loop goes back to the receive.
DispWrite ==
    /\ disp.pc = "write"
    /\ CanLock
    /\ data' = Put(data, disp.w, disp.res)
    /\ lastLog' = fetchLog(disp.err)
    /\ caller' = IF disp.from \in Callers
                 THEN [caller EXCEPT ![disp.from].refreshDone = TRUE]
                 ELSE caller
    /\ disp' = DispIdle
    /\ UNCHANGED <<snapVars, dropped, calls, now, ticks, tokens, readers, writer, outbound, denials>>

\* -------------------------------------------------------------- behaviours
\* The steps of the calls in progress and of the worker.
Steps ==
    \/ \E c \in Callers : GetSelectMiss(c)
    \/ \E c \in Callers : GetSelectStale(c)
    \/ \E c \in Callers : GetSelectFresh(c)
    \/ \E c \in Callers : GetGrace(c)
    \/ \E c \in Callers : GetWrite(c)
    \/ \E c \in Callers : Done(c)
    \/ DispAllow
    \/ DispDeny
    \/ \E resp \in Upstream : DispFetch(resp)
    \/ DispWrite

Next ==
    \/ \E d \in TickSteps : Tick(d)
    \/ \E c \in Callers, q \in RawWords : Query(c, q)
    \/ Steps

Spec == Init /\ [][Next]_vars

\* A step of a Query call in progress.
GetStep(c) ==
    \/ GetSelectMiss(c)
    \/ GetSelectStale(c)
    \/ GetSelectFresh(c)
    \/ GetGrace(c)
    \/ GetWrite(c)

\* The behaviours checked for liveness: fewer calls, and a clock that only
\* jumps past every expiry.
LiveNext ==
    \/ Tick(2 * Year)
    \/ \E c \in Callers, q \in RawWords : QueryCall(c, q, MaxLiveCalls)
    \/ Steps

\* The scheduler runs every goroutine that can run; nothing makes the upstream
\* answer, so the worker may stay in its remote call for ever.
LiveSpec == Init /\ [][LiveNext]_vars /\ \A c \in Callers : WF_vars(GetStep(c))

\* ------------------------------------------------------------ Dump / Load
\* The fields of entry; all are exported, so gob transmits every one of them.
EntryFields == {"Word", "Meanings", "Valid", "Found", "ExpiresAt"}

\* An encoder that transmits only Word and Meanings of an entry.
gobEncodeEntryPartial(e) ==
    [f \in {g \in {"Word", "Meanings"} : e[g] # ZeroEntry[g]} |-> e[f]]

\* gob's encoding of one entry: the fields that do not hold their zero value.
gobEncodeEntry(e) == [f \in {g \in EntryFields : e[g] # ZeroEntry[g]} |-> e[f]]

\* gob's decoding of one entry into a new zero value: the transmitted fields
\* are set, the others stay zero.
gobDecodeEntry(g) ==
    [Word |-> IF "Word" \in DOMAIN g THEN g["Word"] ELSE ZeroEntry.Word,
     Meanings |-> IF "Meanings" \in DOMAIN g THEN g["Meanings"] ELSE ZeroEntry.Meanings,
     Valid |-> IF "Valid" \in DOMAIN g THEN g["Valid"] ELSE ZeroEntry.Valid,
     Found |-> IF "Found" \in DOMAIN g THEN g["Found"] ELSE ZeroEntry.Found,
     ExpiresAt |-> IF "ExpiresAt" \in DOMAIN g THEN g["ExpiresAt"] ELSE ZeroEntry.ExpiresAt]

\* The orders in which a range over the map may visit its keys.
KeyOrders(m) ==
    {o \in [1..Cardinality(DOMAIN m) -> DOMAIN m] :
        \A i, j \in 1..Cardinality(DOMAIN m) : i # j => o[i] # o[j]}

\* What Encode(d.data) writes: the map's pairs, in the order o of the range.
gobEncode(m, o) ==
    [valid |-> TRUE,
     pairs |-> [i \in 1..Len(o) |-> <<o[i], gobEncodeEntry(m[o[i]])>>]]

\* Bytes that are not a gob stream.
GobGarbage == [valid |-> FALSE, pairs |-> <<>>]

\* Dump takes the read lock (deferring its release) with an empty buffer.
DumpRLock ==
    /\ ~fault
    /\ dumper.pc \in {"idle", "done"}
    /\ CanRLock
    /\ readers' = readers \cup {"dumper"}
    /\ dumper' = [DumperIdle EXCEPT !.pc = "encode"]
    /\ UNCHANGED <<data, now, ticks, tokens, writer, disp, caller, lastLog, outbound,
                   calls, denials, dropped, loader, fault>>

\* Encode(d.data) ranges over the map; Dump returns the bytes and the deferred
\* RUnlock runs.
DumpEncode(o) ==
    /\ ~fault
    /\ dumper.pc = "encode"
    /\ dumper' = [dumper EXCEPT !.pc = "done", !.src = data, !.out = gobEncode(data, o)]
    /\ readers' = readers \ {"dumper"}
    /\ UNCHANGED <<data, now, ticks, tokens, writer, disp, caller, lastLog, outbound,
                   calls, denials, dropped, loader, fault>>

\* Load(b) takes the read lock (deferring its release).
LoadRLock(b) ==
    /\ ~fault
    /\ loader.pc \in {"idle", "done"}
    /\ CanRLock
    /\ readers' = readers \cup {"loader"}
    /\ loader' = [LoaderIdle EXCEPT !.pc = "decode", !.b = b, !.before = data]
    /\ UNCHANGED <<data, now, ticks, tokens, writer, disp, caller, lastLog, outbound,
                   calls, denials, dropped, dumper, fault>>

\* Decode(&d.data) reads the next pair and sets the key in the map d.data
\* already is.
LoadDecode ==
    /\ ~fault
    /\ loader.pc = "decode"
    /\ loader.b.valid
    /\ loader.i <= Len(loader.b.pairs)
    /\ LET pair == loader.b.pairs[loader.i]
       IN data' = Put(data, pair[1], gobDecodeEntry(pair[2]))
    /\ loader' = [loader EXCEPT !.i = loader.i + 1]
    /\ UNCHANGED <<now, ticks, tokens, readers, writer, disp, caller, lastLog, outbound,
                   calls, denials, dropped, dumper, fault>>

\* Decode returns (an error when the bytes are not a gob stream); Load returns
\* it and the deferred RUnlock runs.
LoadReturn ==
    /\ ~fault
    /\ loader.pc = "decode"
    /\ ~loader.b.valid \/ loader.i > Len(loader.b.pairs)
    /\ loader' = [loader EXCEPT !.pc = "done",
                                !.err = IF loader.b.valid THEN "nil" ELSE "error"]
    /\ readers' = readers \ {"loader"}
    /\ UNCHANGED <<data, now, ticks, tokens, writer, disp, caller, lastLog, outbound,
                   calls, denials, dropped, dumper, fault>>

\* The runtime finds the map written by Load while Dump ranges over it and
\* stops the process.
RaceFault ==
    /\ ~fault
    /\ loader.pc = "decode"
    /\ dumper.pc = "encode"
    /\ fault' = TRUE
    /\ UNCHANGED <<data, now, ticks, tokens, readers, writer, disp, caller, lastLog,
                   outbound, calls, denials, dropped, dumper, loader>>

\* The process is started again: New builds a Dictionary with an empty map; the
\* bytes of the last Dump are kept.
Restart ==
    /\ ~fault
    /\ dumper.pc = "done"
    /\ loader.pc \in {"idle", "done"}
    /\ disp.pc = "recv"
    /\ data # << >>
    /\ data' = << >>
    /\ tokens' = apiRateLimitBurstSize
    /\ loader' = LoaderIdle
    /\ UNCHANGED <<now, ticks, readers, writer, disp, caller, lastLog, outbound, calls,
                   denials, dropped, dumper, fault>>

\* The entries a lookup made at time 1 can leave for a word.
EntriesOf(w) ==
    {badEntry(w, 1), notFoundEntry(w, 1), foundEntry(w, 1, BodyCat.groups),
     foundEntry(w, 1, BodyEmpty.groups)}

\* The stores over the words.
Stores ==
    UNION {{m \in [ws -> UNION {EntriesOf(w) : w \in ws}] :
               \A w \in ws : m[w] \in EntriesOf(w)} : ws \in SUBSET Words}

\* The worker about to cache that "dog" was not found.
DispPending ==
    [DispIdle EXCEPT !.pc = "write", !.w = "dog", !.t0 = 1,
                     !.resp = [transport |-> FALSE, status |-> 404, body |-> BodyNotFound],
                     !.res = notFoundEntry("dog", 1), !.err = "errNotFound"]

\* A store at time 1, the worker idle or about to write a result.
SnapInit ==
    /\ data \in Stores
    /\ now = 1
    /\ ticks = 0
    /\ tokens = 0
    /\ readers = {}
    /\ writer = None
    /\ disp \in {DispIdle, DispPending}
    /\ caller = [c \in Callers |-> CallerIdle]
    /\ lastLog = "none"
    /\ outbound = 0
    /\ calls = 0
    /\ denials = 0
    /\ dropped = None
    /\ dumper = DumperIdle
    /\ loader = LoaderIdle
    /\ fault = FALSE

\* Dump and Load, called from any goroutine at any time, beside the worker.
SnapNext ==
    \/ DumpRLock
    \/ \E o \in KeyOrders(data) : DumpEncode(o)
    \/ \E b \in {dumper.out, GobGarbage} : dumper.pc = "done" /\ LoadRLock(b)
    \/ LoadDecode
    \/ LoadReturn
    \/ RaceFault
    \/ Restart
    \/ ~fault /\ DispWrite

SnapSpec == SnapInit /\ [][SnapNext]_vars

\* ------------------------------------------------------ a store in service
\* The time of a lookup made two years after the first.
WarmNow == 1 + 2 * Year

\* The service two years after it cached "cat" (a failure, a not-found or a
\* found entry, expired since): a Query for "dog" has handed the word over and
\* returned, the limiter has granted its token, and the worker is inside fetchAPI.
WarmInit ==
    /\ \E e \in {badEntry("cat", 1), notFoundEntry("cat", 1),
                  foundEntry("cat", 1, BodyCat.groups)} :
          /\ data = Put(<< >>, "cat", e)
          /\ lastLog = IF e.Valid THEN "none" ELSE "error"
    /\ now = WarmNow
    /\ ticks = 1
    /\ tokens = 0
    /\ readers = {}
    /\ writer = None
    /\ disp = [DispIdle EXCEPT !.pc = "fetch", !.w = "dog", !.t0 = WarmNow]
    /\ caller = [c \in Callers |-> CallerIdle]
    /\ outbound = 1
    /\ calls = 0
    /\ denials = 0
    /\ dropped = None
    /\ dumper = DumperIdle
    /\ loader = LoaderIdle
    /\ fault = FALSE

\* The steps taken before the clock moves on: the limiter's bucket stays empty.
WarmNext ==
    \/ \E c \in Callers, q \in RawWords : QueryCall(c, q, MaxWarmCalls)
    \/ \E c \in Callers : GetSelectMiss(c)
    \/ \E c \in Callers : GetSelectStale(c)
    \/ \E c \in Callers : GetSelectFresh(c)
    \/ \E c \in Callers : GetGrace(c)
    \/ \E c \in Callers : GetWrite(c)
    \/ \E c \in Callers : Done(c)
    \/ DispDeny
    \/ \E resp \in WarmUpstream : DispFetch(resp)
    \/ DispWrite

WarmSpec == WarmInit /\ [][WarmNext]_vars

\* ------------------------------------------------- fetchAPI on every response
\* The times at which a request is sent and at which its response is handled.
FetchTimes == {1, 1 + Minute, 1 + 2 * Year}

\* The worker inside fetchAPI, its request sent, after a Query handed it a word.
FetchInit ==
    /\ data = << >>
    /\ now \in FetchTimes
    /\ ticks = 0
    /\ tokens = 0
    /\ readers = {}
    /\ writer = None
    /\ \E w \in Words, t0 \in FetchTimes :
          /\ t0 <= now
          /\ disp = [DispIdle EXCEPT !.pc = "fetch", !.w = w, !.t0 = t0]
    /\ caller = [c \in Callers |-> CallerIdle]
    /\ lastLog = "none"
    /\ outbound = 1
    /\ calls = 1
    /\ denials = 0
    /\ dropped = None
    /\ dumper = DumperIdle
    /\ loader = LoaderIdle
    /\ fault = FALSE

\* The response arrives, whatever it is.
FetchNext == \E resp \in Responses : DispFetch(resp)

FetchSpec == FetchInit /\ [][FetchNext]_vars

\* ================================================================ claims
\* The steps of a Query call, told by the caller's position.
QueryReads(c) == caller[c].pc = "idle" /\ caller'[c].pc = "select"
SelectRuns(c) == caller[c].pc = "select" /\ caller'[c].pc # "select"
GraceRuns(c) == caller[c].pc = "grace" /\ caller'[c].pc # "grace"
WriteBackRuns(c) == caller[c].pc = "write" /\ caller'[c].pc # "write"

\* The steps of the worker.
AllowRuns == disp.pc = "allow" /\ disp'.pc # "allow"
FetchReturns == disp.pc = "fetch" /\ disp'.pc # "fetch"
ResultWritten == disp.pc = "write" /\ disp'.pc # "write"

\* C1: a Query for a word that has no entry in the store looks up the
\* lower-cased word, makes exactly one enqueue attempt, returns exactly the
\* pending line for that word with a nil error, and leaves the store as it is.
C1_MissReturnsPending ==
    [][\A c \in Callers :
          /\ QueryReads(c) =>
                /\ caller'[c].w \in Words
                /\ caller'[c].ok = (caller'[c].w \in DOMAIN data)
          /\ (SelectRuns(c) /\ ~caller[c].ok) =>
                /\ caller'[c].pc = "done"
                /\ caller'[c].out = << <<caller[c].w, "1", "TXT", PendingText>> >>
                /\ caller'[c].err = "nil"
                /\ caller'[c].attempts = 1
                /\ caller'[c].handed => (disp'.pc = "allow" /\ disp'.w = caller[c].w)
                /\ ~caller'[c].handed => disp' = disp
                /\ data' = data]_vars

\* C1 witness: a Query for "cat" has returned the pending line after one
\* enqueue attempt, and the store still has no entry for "cat".
C1_Witness ==
    \E c \in Callers :
        /\ caller[c].pc = "done"
        /\ caller[c].w = "cat"
        /\ ~caller[c].ok
        /\ caller[c].attempts = 1
        /\ caller[c].out = << <<"cat", "1", "TXT", PendingText>> >>
        /\ "cat" \notin DOMAIN data

\* C2: a Query that reads an entry whose expiresAt is in the past makes one
\* enqueue attempt, gives its copy the expiry now + one minute, writes that copy
\* to the store under the word, and returns the rendering of the cached entry,
\* not the pending line.
C2_StaleServedAndExtended ==
    [][\A c \in Callers :
          /\ (SelectRuns(c) /\ caller[c].ok /\ caller[c].data.ExpiresAt < now) =>
                /\ caller'[c].pc = "grace"
                /\ caller'[c].attempts = 1
          /\ GraceRuns(c) =>
                caller'[c].data = [caller[c].data EXCEPT !.ExpiresAt = now + Minute]
          /\ WriteBackRuns(c) =>
                /\ caller'[c].pc = "done"
                /\ caller[c].w \in DOMAIN data'
                /\ data'[caller[c].w] = caller[c].data
                /\ data'[caller[c].w].ExpiresAt <= now + Minute
                /\ caller'[c].out = Render(caller[c].w, caller[c].data)
                /\ caller'[c].out # << <<caller[c].w, "1", "TXT", PendingText>> >>
                /\ caller'[c].err = "nil"]_vars

\* C2 witness: a Query of a stale entry has returned its rendering, and the
\* store holds the entry with the expiry one minute from now.
C2_Witness ==
    \E c \in Callers :
        /\ caller[c].pc = "done"
        /\ caller[c].expired
        /\ caller[c].attempts = 1
        /\ caller[c].out = << <<caller[c].w, "1", "TXT", UnavailableText>> >>
        /\ caller[c].w \in DOMAIN data
        /\ data[caller[c].w].ExpiresAt = now + Minute
        /\ ~data[caller[c].w].Valid

\* C3: once the refresh a stale read handed off has been written to the store,
\* that read's grace-window write-back has already been applied (the write-back
\* is not still to come), and the store holds something else than the stale copy
\* when the Query has returned.
C3_GraceBeforeRefresh ==
    \A c \in Callers :
        (caller[c].expired /\ caller[c].handed /\ caller[c].refreshDone) =>
            /\ caller[c].pc \notin {"grace", "write"}
            /\ caller[c].pc = "done" => data[caller[c].w] # caller[c].data

\* C4: every Query call in progress returns, whatever the worker does: the
\* callers are scheduled, the worker may stay in its remote call for ever.
C4_QueryReturns ==
    \A c \in Callers :
        (caller[c].pc \in {"select", "grace", "write"}) ~> (caller[c].pc = "done")

\* C4 witness: a Query has returned with its enqueue attempt dropped while the
\* worker is inside a remote call.
C4_Witness ==
    /\ disp.pc = "fetch"
    /\ \E c \in Callers :
          /\ caller[c].pc = "done"
          /\ caller[c].attempts = 1
          /\ ~caller[c].handed

\* A remote lookup that fails: a transport error, a 500 or 429 status, or a
\* body that is neither a not-found object nor an array of word data.
LookupFailed(resp) ==
    \/ resp.transport
    \/ resp.status \in {500, 429}
    \/ resp.body.kind = "invalid"
    \/ resp.body.kind = "object" /\ resp.body.title = "number"
    \/ resp.body.kind = "array" /\ ~resp.body.typed

\* C5: when the limiter allows a request and the lookup fails, the worker
\* writes for the word an entry with valid=false and expiresAt = the time the
\* fetch began + 10 minutes; a Query that reads such an entry returns exactly
\* the unavailable line, and makes no enqueue attempt unless expiresAt is past.
C5_FailureCached ==
    [][/\ (AllowRuns /\ tokens >= 1) => (disp'.pc = "fetch" /\ disp'.t0 = now)
       /\ (FetchReturns /\ LookupFailed(disp'.resp)) =>
             /\ disp'.res =
                   [Word |-> disp.w, Meanings |-> <<>>, Valid |-> FALSE,
                    Found |-> FALSE, ExpiresAt |-> disp.t0 + 10 * Minute]
             /\ disp'.err \notin {"nil", "errNotFound"}
       /\ ResultWritten => (disp.w \in DOMAIN data' /\ data'[disp.w] = disp.res)
       /\ \A c \in Callers :
             /\ (SelectRuns(c) /\ caller[c].ok /\ ~caller[c].data.Valid
                   /\ ~(caller[c].data.ExpiresAt < now)) =>
                   /\ caller'[c].attempts = 0
                   /\ disp' = disp
                   /\ caller'[c].pc = "done"
             /\ (caller[c].pc # "done" /\ caller'[c].pc = "done"
                   /\ caller[c].ok /\ ~caller[c].data.Valid) =>
                   /\ caller'[c].out = << <<caller[c].w, "1", "TXT", UnavailableText>> >>
                   /\ caller'[c].err = "nil"]_vars

\* C5 witness: the store holds a failure placeholder that has not expired, and
\* a Query for the word has returned the unavailable line without an enqueue
\* attempt.
C5_Witness ==
    \E c \in Callers :
        /\ caller[c].pc = "done"
        /\ caller[c].ok
        /\ caller[c].attempts = 0
        /\ caller[c].out = << <<caller[c].w, "1", "TXT", UnavailableText>> >>
        /\ caller[c].w \in DOMAIN data
        /\ ~data[caller[c].w].Valid
        /\ data[caller[c].w].ExpiresAt = 1 + 10 * Minute
        /\ now <= data[caller[c].w].ExpiresAt

\* C6 as stated: a response body of the not-found shape yields the not-found
\* entry and errNotFound, whatever the status.
C6_NotFoundShapeCached ==
    (disp.pc = "write" /\ ~disp.resp.transport /\ disp.resp.body = BodyNotFound) =>
        /\ disp.res.Valid
        /\ ~disp.res.Found
        /\ disp.res.Meanings = <<>>
        /\ disp.err = "errNotFound"

\* C6 amended: a response whose status is neither 500 nor 429 and whose body
\* has the not-found shape yields an entry with valid=true, found=false, no
\* meanings and expiresAt one month ahead, with errNotFound; the worker caches
\* it and logs nothing; a Query that reads such an entry returns exactly the
\* not-found line.
C6_NotFoundCached ==
    [][/\ (FetchReturns /\ ~disp'.resp.transport /\ disp'.resp.status \notin {500, 429}
             /\ disp'.resp.body = BodyNotFound) =>
             /\ disp'.res =
                   [Word |-> disp.w, Meanings |-> <<>>, Valid |-> TRUE,
                    Found |-> FALSE, ExpiresAt |-> now + 30 * 24 * 60 * Minute]
             /\ disp'.err = "errNotFound"
       /\ (ResultWritten /\ disp.err = "errNotFound") =>
             /\ disp.w \in DOMAIN data'
             /\ data'[disp.w] = disp.res
             /\ lastLog' = "none"
       /\ \A c \in Callers :
             (caller[c].pc # "done" /\ caller'[c].pc = "done"
                /\ caller[c].ok /\ caller[c].data.Valid /\ ~caller[c].data.Found) =>
                /\ caller'[c].out = << <<caller[c].w, "1", "TXT", NotFoundText>> >>
                /\ caller'[c].err = "nil"]_vars

\* C6 witness: a not-found entry is cached for a month, nothing was logged, and
\* a Query for the word has returned the not-found line.
C6_Witness ==
    \E c \in Callers :
        /\ caller[c].pc = "done"
        /\ caller[c].out = << <<caller[c].w, "1", "TXT", NotFoundText>> >>
        /\ caller[c].w \in DOMAIN data
        /\ data[caller[c].w].Valid
        /\ ~data[caller[c].w].Found
        /\ data[caller[c].w].ExpiresAt = 1 + 30 * 24 * 60 * Minute
        /\ lastLog = "none"

\* C7: a response with a 5xx or 429 status yields, whatever its body, a failure
\* placeholder (valid=false, expiring 10 minutes after the fetch began) and an
\* error.
C7_ErrorStatusIsFailure ==
    (disp.pc = "write" /\ ~disp.resp.transport
       /\ (disp.resp.status \in 500..599 \/ disp.resp.status = 429)) =>
        /\ ~disp.res.Valid
        /\ ~disp.res.Found
        /\ disp.res.ExpiresAt = disp.t0 + 10 * Minute
        /\ disp.err = "error"

\* C8: a Query that reads a valid, found entry returns one line per cached
\* meaning, in their order, the i-th with the word, the i-th part of speech and
\* the i-th definition.
C8_OneLinePerMeaning ==
    \A c \in Callers :
        (caller[c].pc = "done" /\ caller[c].ok /\ caller[c].data.Valid
           /\ caller[c].data.Found) =>
            /\ caller[c].err = "nil"
            /\ Len(caller[c].out) = Len(caller[c].data.Meanings)
            /\ \A i \in 1..Len(caller[c].data.Meanings) :
                  caller[c].out[i] =
                      <<caller[c].w, "1", "TXT",
                        caller[c].data.Meanings[i].PartOfSpeech \o ":",
                        caller[c].data.Meanings[i].Definition>>

\* C8 witness: a Query for "cat" has returned the noun line and then the verb
\* line of the entry the store holds.
C8_Witness ==
    \E c \in Callers :
        /\ caller[c].pc = "done"
        /\ "cat" \in DOMAIN data
        /\ data["cat"].Found
        /\ Len(data["cat"].Meanings) = 2
        /\ caller[c].out =
              << <<"cat", "1", "TXT", "noun:", "a small feline">>,
                 <<"cat", "1", "TXT", "verb:", "to hoist an anchor">> >>

\* C9: the meanings of a found response come from the first group alone, no two
\* of them have the same part of speech, each is the first definition supplied
\* for its part of speech, and every part of speech with a definition has one.
C9_OnePerPartOfSpeech ==
    (disp.pc = "write" /\ disp.err = "nil") =>
        LET ms == disp.res.Meanings
            groups == disp.resp.body.groups
            first == IF Len(groups) > 0 THEN groups[1].Meanings ELSE <<>>
        IN /\ \A i, j \in 1..Len(ms) :
                 i # j => ms[i].PartOfSpeech # ms[j].PartOfSpeech
           /\ \A i \in 1..Len(ms) :
                 \E k \in 1..Len(first) :
                    /\ first[k].PartOfSpeech = ms[i].PartOfSpeech
                    /\ Len(first[k].Definitions) > 0
                    /\ \A l \in 1..(k - 1) :
                          first[l].PartOfSpeech = ms[i].PartOfSpeech =>
                              Len(first[l].Definitions) = 0
                    /\ ms[i].Definition = Trim(first[k].Definitions[1].Definition)
           /\ \A k \in 1..Len(first) :
                 Len(first[k].Definitions) > 0 =>
                    \E i \in 1..Len(ms) : ms[i].PartOfSpeech = first[k].PartOfSpeech

\* C10: when the limiter denies a dequeued request, no remote call is made, no
\* entry of the store changes and the worker is back at its receive.
C10_DenialLeavesStore ==
    [][(AllowRuns /\ tokens < 1) =>
          /\ data' = data
          /\ outbound' = 0
          /\ outbound = 0
          /\ disp'.pc = "recv"]_vars

\* C10 witness: the limiter has denied two requests in a row and the worker
\* waits for the next.
C10_Witness ==
    /\ denials = 2
    /\ lastLog = "rate limit"
    /\ disp.pc = "recv"
    /\ outbound = 0

\* C11: after the limiter has dropped the request for a word, the next Query
\* for that word makes an enqueue attempt, whether the word is absent from the
\* store or the dropped request came from a stale read of its entry.
C11_NextQueryEnqueues ==
    [][\A c \in Callers :
          (SelectRuns(c) /\ caller[c].afterDrop) => caller'[c].attempts = 1]_vars

\* Load returns.
LoadReturns == loader.pc = "decode" /\ loader'.pc = "done"

\* C12: when Load returns without error, having begun on an empty store with
\* the bytes Dump returned for a store S, the store has exactly the keys of S,
\* and each key's entry equals that of S in word, meanings, valid, found and
\* expiresAt.
C12_DumpLoadRoundTrip ==
    [][(/\ LoadReturns
        /\ loader'.err = "nil"
        /\ loader.before = << >>
        /\ dumper.pc = "done"
        /\ loader.b = dumper.out) =>
          /\ DOMAIN data' = DOMAIN dumper.src
          /\ \A k \in DOMAIN dumper.src :
                /\ data'[k].Word = dumper.src[k].Word
                /\ data'[k].Meanings = dumper.src[k].Meanings
                /\ data'[k].Valid = dumper.src[k].Valid
                /\ data'[k].Found = dumper.src[k].Found
                /\ data'[k].ExpiresAt = dumper.src[k].ExpiresAt]_vars

\* C12 witness: a store of two words, a failure placeholder and a found entry
\* with meanings, was dumped; the process was started again and Load has
\* rebuilt both entries in the empty store.
C12_Witness ==
    /\ loader.pc = "done"
    /\ loader.err = "nil"
    /\ loader.before = << >>
    /\ dumper.pc = "done"
    /\ loader.b = dumper.out
    /\ Len(dumper.out.pairs) = 2
    /\ DOMAIN data = {"cat", "dog"}
    /\ ~data["cat"].Valid
    /\ data["dog"].Found
    /\ Len(data["dog"].Meanings) = 2
    /\ data["dog"].ExpiresAt = 1 + Year

\* The keys a snapshot holds, and the entry it holds for one of them.
SnapshotKeys(b) == {b.pairs[i][1] : i \in 1..Len(b.pairs)}
SnapshotEntry(b, k) ==
    LET i == CHOOSE j \in 1..Len(b.pairs) : b.pairs[j][1] = k
    IN [Word |-> IF "Word" \in DOMAIN b.pairs[i][2] THEN b.pairs[i][2]["Word"] ELSE "",
        Meanings |-> IF "Meanings" \in DOMAIN b.pairs[i][2]
                     THEN b.pairs[i][2]["Meanings"] ELSE <<>>,
        Valid |-> "Valid" \in DOMAIN b.pairs[i][2],
        Found |-> "Found" \in DOMAIN b.pairs[i][2],
        ExpiresAt |-> IF "ExpiresAt" \in DOMAIN b.pairs[i][2]
                      THEN b.pairs[i][2]["ExpiresAt"] ELSE 0]

\* C13: when Load returns without error on a store that already held entries,
\* the store holds exactly the snapshot: every key that was in the store and is
\* not in the snapshot is gone, and every key of the snapshot has the snapshot's
\* entry.
C13_LoadReplaces ==
    [][(LoadReturns /\ loader'.err = "nil" /\ loader.before # << >>) =>
          /\ DOMAIN data' = SnapshotKeys(loader.b)
          /\ \A k \in SnapshotKeys(loader.b) : data'[k] = SnapshotEntry(loader.b, k)]_vars

\* C14: while Load is writing the map it holds the lock exclusively: no other
\* goroutine holds the lock in either mode, so no Dump is inside its read of
\* the map at that time.
C14_WritersExclusive ==
    loader.pc = "decode" =>
        /\ readers \subseteq {"loader"}
        /\ writer \in {None, "loader"}
        /\ dumper.pc # "encode"

\* C15: at most one remote lookup is in progress in every reachable state,
\* and it is the worker's: the worker receives a word only from its receive,
\* and is back there only after the limiter check and, if granted, the remote
\* call and the store write for the word it holds.
C15_OneOutboundLookup ==
    /\ outbound \in {0, 1}
    /\ outbound = 1 <=> disp.pc = "fetch"
    /\ disp.pc \in {"recv", "allow", "fetch", "write"}
    /\ disp.pc = "recv" <=> disp.w = ""

\* C15 witness: both callers have made an enqueue attempt, one was received and
\* one was dropped, and the single remote lookup is in progress.
C15_Witness ==
    /\ outbound = 1
    /\ disp.pc = "fetch"
    /\ \A c \in Callers : caller[c].pc = "done" /\ caller[c].attempts = 1
    /\ \E c1, c2 \in Callers : caller[c1].handed /\ ~caller[c2].handed

\* C16: an enqueue attempt is received exactly when the worker is at its
\* receive; an attempt made while the worker is busy changes nothing but the
\* caller's own position, so no request is kept anywhere. The worker comes to
\* its limiter check only by receiving the word of one caller's attempt, comes
\* to the remote call only from that limiter check, and holds that word until it
\* is back at its receive.
C16_HandoffOnlyAtReceive ==
    [][/\ \A c \in Callers :
             (SelectRuns(c) /\ caller'[c].attempts = 1) =>
                /\ caller'[c].handed <=> disp.pc = "recv"
                /\ caller'[c].handed =>
                      disp' = [disp EXCEPT !.pc = "allow", !.w = caller[c].w, !.from = c]
                /\ ~caller'[c].handed =>
                      /\ disp' = disp
                      /\ <<data, tokens, outbound, lastLog>>' = <<data, tokens, outbound, lastLog>>
       /\ (disp.pc # "allow" /\ disp'.pc = "allow") =>
             /\ disp.pc = "recv"
             /\ Cardinality({c \in Callers : SelectRuns(c) /\ caller'[c].handed
                                              /\ caller[c].w = disp'.w}) = 1
       /\ (disp.pc # "fetch" /\ disp'.pc = "fetch") => disp.pc = "allow"
       /\ (disp.pc # "recv" /\ disp'.pc # "recv") => disp'.w = disp.w
       /\ ResultWritten => DOMAIN data' = DOMAIN data \cup {disp.w}]_vars

\* C16 witness: the request for "dog" was dropped while the worker was busy
\* with "cat"; the worker has cached "cat", is back at its receive, and "dog"
\* was never fetched.
C16_Witness ==
    /\ disp.pc = "recv"
    /\ DOMAIN data = {"cat"}
    /\ lastLog # "rate limit"
    /\ \E c \in Callers :
          /\ caller[c].pc = "done"
          /\ caller[c].w = "dog"
          /\ caller[c].attempts = 1
          /\ ~caller[c].handed

\* C17: without Load no step removes a key from the store. A Query finds its
\* word exactly when the store has it, returns the pending line exactly when it
\* did not find it, and a word some Query has answered with anything else is in
\* the store; so a Query that begins after such an answer finds the word and
\* does not return the pending line.
C17_KeysOnlyGrow ==
    [][/\ DOMAIN data \subseteq DOMAIN data'
       /\ \A c \in Callers :
             /\ QueryReads(c) => (caller'[c].ok <=> caller'[c].w \in DOMAIN data)
             /\ (caller[c].pc # "done" /\ caller'[c].pc = "done") =>
                   (caller'[c].out = <<PendingLine(caller[c].w)>> <=> ~caller[c].ok)
             /\ (caller[c].pc = "done" /\ caller[c].out # <<PendingLine(caller[c].w)>>) =>
                   /\ caller[c].w \in DOMAIN data
                   /\ \A c2 \in Callers :
                         (QueryReads(c2) /\ caller'[c2].w = caller[c].w) => caller'[c2].ok]_vars

\* C17 witness: "cat" was fetched and cached, a Query for "cat" has returned
\* the not-found line and a third Query, for "cat" again, has found the word.
C17_Witness ==
    /\ "cat" \in DOMAIN data
    /\ calls = 3
    /\ \E c, c2 \in Callers :
          /\ c # c2
          /\ caller[c].pc = "done"
          /\ caller[c].w = "cat"
          /\ caller[c].out = <<NotFoundLine("cat")>>
          /\ caller[c2].pc = "select"
          /\ caller[c2].w = "cat"
          /\ caller[c2].ok

\* C18: a Query whose cached entry has not expired (expiresAt is not before
\* now) makes no enqueue attempt and leaves the store and the worker as they
\* are; of Query's steps only the write-back of a stale read changes the store,
\* and it changes the queried word's key alone.
C18_FreshReadLeavesStore ==
    [][\A c \in Callers :
          /\ (SelectRuns(c) /\ caller[c].ok /\ ~(caller[c].data.ExpiresAt < now)) =>
                /\ caller'[c].pc = "done"
                /\ caller'[c].attempts = 0
                /\ disp' = disp
                /\ data' = data
          /\ (caller'[c].pc # caller[c].pc /\ caller[c].pc # "write") => data' = data
          /\ WriteBackRuns(c) =>
                /\ caller[c].expired
                /\ caller[c].ok
                /\ DOMAIN data' = DOMAIN data \cup {caller[c].w}
                /\ \A k \in DOMAIN data \ {caller[c].w} : data'[k] = data[k]]_vars

\* C18 witness: a Query has returned the meanings of an entry that expires
\* later, without an enqueue attempt, while the worker was at its receive.
C18_Witness ==
    /\ disp.pc = "recv"
    /\ \E c \in Callers :
          /\ caller[c].pc = "done"
          /\ caller[c].ok
          /\ ~caller[c].expired
          /\ caller[c].attempts = 0
          /\ caller[c].data.Found
          /\ caller[c].data.ExpiresAt > now
          /\ data[caller[c].w] = caller[c].data

\* C19: in every state reached from the empty store by Query and worker steps,
\* each entry of the store has expiresAt set, has found=false and no meanings
\* when valid=false, has no meanings when found=false, and has for its word
\* field the key it is stored under.
C19_EntriesWellFormed ==
    \A k \in DOMAIN data :
        /\ data[k].ExpiresAt # 0
        /\ ~data[k].Valid => (~data[k].Found /\ data[k].Meanings = <<>>)
        /\ ~data[k].Found => data[k].Meanings = <<>>
        /\ data[k].Word = k

\* C19 witness: the store holds an entry the worker wrote for "dog" and, for
\* "cat", an invalid entry that a Query wrote back with a grace expiry.
C19_Witness ==
    /\ DOMAIN data = {"cat", "dog"}
    /\ data["dog"].Valid
    /\ ~data["cat"].Valid
    /\ data["cat"].ExpiresAt = now + Minute
    /\ \E c \in Callers : caller[c].pc = "done" /\ caller[c].expired /\ caller[c].w = "cat"

\* C20: a response that is an empty array, or whose first group has no
\* part-of-speech entry with a definition, yields an entry with valid=true,
\* found=true and no meanings; a Query that reads a valid, found entry returns
\* as many lines as the entry has meanings and a nil error, so for an entry
\* without meanings it returns no line at all, neither the not-found line nor
\* the pending line.
C20_NoMeaningsNoLines ==
    /\ (/\ disp.pc = "write"
        /\ ~disp.resp.transport
        /\ disp.resp.status \notin {500, 429}
        /\ disp.resp.body.kind = "array"
        /\ disp.resp.body.typed
        /\ \/ disp.resp.body.groups = <<>>
           \/ \A i \in 1..Len(disp.resp.body.groups[1].Meanings) :
                 disp.resp.body.groups[1].Meanings[i].Definitions = <<>>) =>
          /\ disp.res.Valid
          /\ disp.res.Found
          /\ disp.res.Meanings = <<>>
          /\ disp.err = "nil"
    /\ \A c \in Callers :
          (caller[c].pc = "done" /\ caller[c].ok /\ caller[c].data.Valid
             /\ caller[c].data.Found) =>
              /\ caller[c].err = "nil"
              /\ Len(caller[c].out) = Len(caller[c].data.Meanings)
              /\ caller[c].data.Meanings = <<>> => caller[c].out = <<>>

\* C20 witness: the worker has cached "dog" as found without meanings and a
\* Query for "dog" has returned no lines and no error.
C20_Witness ==
    /\ "dog" \in DOMAIN data
    /\ data["dog"].Valid
    /\ data["dog"].Found
    /\ data["dog"].Meanings = <<>>
    /\ \E c \in Callers :
          /\ caller[c].pc = "done"
          /\ caller[c].w = "dog"
          /\ caller[c].ok
          /\ caller[c].out = <<>>
          /\ caller[c].err = "nil"

====
